---- MODULE Spec2Model ----
(***************************************************************************)
(* Discovery Engine MCP server (src/server.py).                            *)
(*                                                                         *)
(* Every tool invocation is one asyncio task.  A task runs atomically from *)
(* one suspension point (an awaited HTTP request) to the next, so a tool   *)
(* is modelled by one action that starts it and runs it up to its first    *)
(* request, and one action per response, which runs the code after the     *)
(* await up to the next request or to the return.                          *)
(*                                                                         *)
(* A JSON document is a pair (isMap, m): isMap tells a JSON object from    *)
(* any other JSON value (a list, a number, ...), m is the object as a      *)
(* function from its keys to its values.  The string returned by a tool is *)
(* json.dumps of a document: it is kept as the document and the indent     *)
(* argument that were serialised.                                          *)
(***************************************************************************)
EXTENDS Integers, Sequences, FiniteSets, TLC

\* ---------------------------------------------------------------------
\* Bounds of the model
\* ---------------------------------------------------------------------

\* Longest issues.errors list a finalize response carries.
MaxErrors == 2

\* Longest columns list a finalize response carries.
MaxColumns == 1

\* Number of tasks; tasks other than the first stay unused in Spec.
NumProcs == 2

Procs == 1..NumProcs

\* ---------------------------------------------------------------------
\* Python values
\* ---------------------------------------------------------------------

\* Python's None where a string is expected.
None == "<None>"

\* The empty dict.
Empty == [k \in {} |-> None]

Restrict(m, S) == [k \in S |-> m[k]]

\* d[k] = v
Put(m, k, v) == [x \in (DOMAIN m) \cup {k} |-> IF x = k THEN v ELSE m[x]]

\* d.get(k) for a key holding a string
Get(m, k) == IF k \in DOMAIN m THEN m[k] ELSE None

\* truth value of an optional string: None and "" are false
Truthy(s) == s # None /\ s # ""

Doc(isMap, m) == [isMap |-> isMap, m |-> m]

\* ---------------------------------------------------------------------
\* Program constants
\* ---------------------------------------------------------------------

_ALLOWED_EXTENSIONS ==
    {".csv", ".tsv", ".xlsx", ".xls", ".json", ".parquet", ".arff", ".feather"}

_MAX_FILE_SIZE_BYTES == 1024 * 1024 * 1024

_VALID_VISIBILITY == {"public", "private"}

\* ---------------------------------------------------------------------
\* Helpers
\* ---------------------------------------------------------------------

\* _resolve_api_key preferring the key of the environment:
\* `_ENV_API_KEY or api_key`.
_resolve_api_key_EnvFirst(api_key, env) == IF Truthy(env) THEN env ELSE api_key

\* Lines 69-71: return api_key or _ENV_API_KEY
_resolve_api_key(api_key, env) == IF Truthy(api_key) THEN api_key ELSE env

_validate_visibility(visibility) ==
    IF visibility \notin _VALID_VISIBILITY
    THEN "Invalid visibility '" \o visibility
            \o "'. Must be 'public' or 'private'."
    ELSE None

\* ---------------------------------------------------------------------
\* What the network can answer to one request
\* ---------------------------------------------------------------------

\* kind:   "connect" (httpx.ConnectError), "timeout" (httpx.TimeoutException),
\*         "http" (a response arrived), "pending" (no answer yet)
\* status: resp.status_code
\* retry:  the Retry-After header, None when absent
\* ctype:  what resp.json() finds: "map" a JSON object, "list" another JSON
\*         value, "text" a body that is not JSON
\* text:   resp.text, or the cause of a transport error
\* body:   the JSON object when ctype = "map"
Outcome(kind, status, retry, ctype, text, body) ==
    [kind |-> kind, status |-> status, retry |-> retry,
     ctype |-> ctype, text |-> text, body |-> body]

Pending == Outcome("pending", 0, None, "text", "", Empty)

TransportFailures ==
    { Outcome(k, 0, None, "text", "cause", Empty) :
        k \in {"connect", "timeout"} }

ErrorStatuses == {401, 402, 404, 429, 500}

\* Bodies of an error response: JSON object with or without `detail`, a JSON
\* list, or plain text.
ErrorResponses ==
    { Outcome("http", s, r, b[1], b[2], b[3]) :
        s \in ErrorStatuses, r \in {None, "5"},
        b \in { <<"map", "{json}", [detail |-> "why"]>>,
                <<"map", "{json}", [other |-> "x"]>>,
                <<"list", "[json]", Empty>>,
                <<"text", "oops", Empty>> } }

\* A 2xx response whose body is the JSON object m.
Ok(m) == Outcome("http", 200, None, "map", "{json}", m)

\* 2xx responses whose body is not a JSON object.  A JSON list is taken not
\* to hold the string "error", so `"error" in result` is false for it and
\* the first result.get(...) raises AttributeError.
OddOk == { Outcome("http", 200, None, "list", "[json]", Empty),
           Outcome("http", 200, None, "text", "oops", Empty) }

\* ---------------------------------------------------------------------
\* HTTP helpers
\* ---------------------------------------------------------------------

\* The outcome of a request as the request clients hand it to their caller:
\* either an exception left the client (raised, exc) or a document was
\* returned (isMap, m).
Returned(isMap, m) == [raised |-> FALSE, exc |-> None, isMap |-> isMap, m |-> m]

Raised(exc) == [raised |-> TRUE, exc |-> exc, isMap |-> FALSE, m |-> Empty]

NoResult == Returned(FALSE, Empty)

Error(msg) == Returned(TRUE, [error |-> msg])

\* resp.json().get("detail", resp.text) under try/except Exception
Detail(o) ==
    IF o.ctype = "map" /\ "detail" \in DOMAIN o.body
    THEN o.body.detail ELSE o.text

\* _api_request, from its `try:` on (lines 117-143): o is what the network answers.
_api_request(o) ==
    CASE o.kind = "connect" ->
           Error("Connection failed: " \o o.text \o ". Check DISCOVERY_API_URL.")
      [] o.kind = "timeout" ->
           Error("Request timed out: " \o o.text)
      [] OTHER ->
           IF o.status = 401
           THEN Error("Authentication failed. Check your API key or session token.")
           ELSE IF o.status = 402
           THEN Error("Payment required. Add a payment method first.")
           ELSE IF o.status = 429
           THEN Error("Rate limited. Retry after "
                        \o (IF o.retry = None THEN "60" ELSE o.retry)
                        \o " seconds.")
           ELSE IF o.status >= 400
           THEN Error("API error (" \o ToString(o.status) \o "): " \o Detail(o))
           ELSE IF o.ctype = "text"
           THEN Raised("json.JSONDecodeError")
           ELSE Returned(o.ctype = "map", o.body)

\* _dashboard_request stamping the status code into the body it returns.
_dashboard_request_Stamped(o) ==
    IF o.kind = "http" /\ o.status < 400 /\ o.ctype = "map"
    THEN Returned(TRUE, Put(o.body, "status_code", ToString(o.status)))
    ELSE IF o.kind = "connect"
    THEN Error("Connection failed: " \o o.text \o ". Check DISCOVERY_DASHBOARD_URL.")
    ELSE _api_request(o)

\* _dashboard_request whose last status test is `>= 500`: a 4xx response
\* outside the three named ones is decoded like a success.
_dashboard_request_From500(o) ==
    IF o.kind = "http" /\ o.status \in 400..499 /\ o.status \notin {401, 402, 429}
    THEN IF o.ctype = "text" THEN Raised("json.JSONDecodeError")
         ELSE Returned(o.ctype = "map", o.body)
    ELSE IF o.kind = "connect"
    THEN Error("Connection failed: " \o o.text \o ". Check DISCOVERY_DASHBOARD_URL.")
    ELSE _api_request(o)

\* _dashboard_request with its own default for a missing Retry-After header.
_dashboard_request_Retry30(o) ==
    IF o.kind = "http" /\ o.status = 429 /\ o.retry = None
    THEN Error("Rate limited. Retry after 30 seconds.")
    ELSE IF o.kind = "connect"
    THEN Error("Connection failed: " \o o.text \o ". Check DISCOVERY_DASHBOARD_URL.")
    ELSE _api_request(o)

\* _dashboard_request with resp.json().get("detail", ...) outside any try:
\* an error response whose body is not a JSON object raises.
_dashboard_request_Unguarded(o) ==
    CASE o.kind = "connect" ->
           Error("Connection failed: " \o o.text \o ". Check DISCOVERY_DASHBOARD_URL.")
      [] o.kind = "timeout" ->
           Error("Request timed out: " \o o.text)
      [] OTHER ->
           IF o.status = 401
           THEN Error("Authentication failed. Check your API key or session token.")
           ELSE IF o.status = 402
           THEN Error("Payment required. Add a payment method first.")
           ELSE IF o.status = 429
           THEN Error("Rate limited. Retry after "
                        \o (IF o.retry = None THEN "60" ELSE o.retry)
                        \o " seconds.")
           ELSE IF o.status >= 400
           THEN IF o.ctype = "text" THEN Raised("json.JSONDecodeError")
                ELSE IF o.ctype = "list" THEN Raised("AttributeError")
                ELSE Error("API error (" \o ToString(o.status) \o "): " \o Detail(o))
           ELSE IF o.ctype = "text"
           THEN Raised("json.JSONDecodeError")
           ELSE Returned(o.ctype = "map", o.body)

\* _dashboard_request, from its `try:` on (lines 162-188): o is what the network answers.
_dashboard_request(o) ==
    CASE o.kind = "connect" ->
           Error("Connection failed: " \o o.text \o ". Check DISCOVERY_DASHBOARD_URL.")
      [] o.kind = "timeout" ->
           Error("Request timed out: " \o o.text)
      [] OTHER ->
           IF o.status = 401
           THEN Error("Authentication failed. Check your API key or session token.")
           ELSE IF o.status = 402
           THEN Error("Payment required. Add a payment method first.")
           ELSE IF o.status = 429
           THEN Error("Rate limited. Retry after "
                        \o (IF o.retry = None THEN "60" ELSE o.retry)
                        \o " seconds.")
           ELSE IF o.status >= 400
           THEN Error("API error (" \o ToString(o.status) \o "): " \o Detail(o))
           ELSE IF o.ctype = "text"
           THEN Raised("json.JSONDecodeError")
           ELSE Returned(o.ctype = "map", o.body)

\* ---------------------------------------------------------------------
\* Hints
\* ---------------------------------------------------------------------

\* data.get(k, 0) for a key holding a number
GetNum(m, k) == IF k \in DOMAIN m THEN m[k] ELSE 0

\* _build_result_hints reading is_public with the default False.
_build_result_hints_PrivateByDefault(data) ==
    LET hidden_deep == GetNum(data, "hidden_deep_count")
        hidden_deep_novel == GetNum(data, "hidden_deep_novel_count")
        novel_part == IF hidden_deep_novel # 0
                      THEN ", including " \o ToString(hidden_deep_novel) \o " novel"
                      ELSE ""
        upsell == IF hidden_deep > 0
                  THEN << "Deep analysis found " \o ToString(hidden_deep)
                            \o " more pattern"
                            \o (IF hidden_deep # 1 THEN "s" ELSE "")
                            \o novel_part \o ". "
                            \o "Upgrade to a paid plan to unlock them: https://disco.leap-labs.com/account" >>
                  ELSE << >>
        privacy == IF "is_public" \in DOMAIN data /\ data.is_public
                   THEN << "This was a public run -- results are visible in the public gallery. "
                             \o "Use visibility='private' for confidential data." >>
                   ELSE << >>
    IN upsell \o privacy

\* Lines 196-217.
_build_result_hints(data) ==
    LET hidden_deep == GetNum(data, "hidden_deep_count")
        hidden_deep_novel == GetNum(data, "hidden_deep_novel_count")
        novel_part == IF hidden_deep_novel # 0
                      THEN ", including " \o ToString(hidden_deep_novel) \o " novel"
                      ELSE ""
        upsell == IF hidden_deep > 0
                  THEN << "Deep analysis found " \o ToString(hidden_deep)
                            \o " more pattern"
                            \o (IF hidden_deep # 1 THEN "s" ELSE "")
                            \o novel_part \o ". "
                            \o "Upgrade to a paid plan to unlock them: https://disco.leap-labs.com/account" >>
                  ELSE << >>
        privacy == IF "is_public" \notin DOMAIN data \/ data.is_public
                   THEN << "This was a public run -- results are visible in the public gallery. "
                             \o "Use visibility='private' for confidential data." >>
                   ELSE << >>
    IN upsell \o privacy

\* ---------------------------------------------------------------------
\* File validation
\* ---------------------------------------------------------------------

\* A path of the local file system with what os.path reports about its
\* resolved form: exists, isfile, splitext's extension, getsize.
File(path, exists, isfile, ext, size) ==
    [path |-> path, exists |-> exists, isfile |-> isfile, ext |-> ext, size |-> size]

\* str.lower() on the extensions the model uses
Lower(ext) ==
    CASE ext = ".CSV" -> ".csv"
      [] ext = ".JSON" -> ".json"
      [] ext = ".EXE" -> ".exe"
      [] OTHER -> ext

MiB == 1024 * 1024

\* f"{n / (1024 * 1024):.1f}"
OneDecimal(n) ==
    LET tenths == ((n % MiB) * 10 + MiB \div 2) \div MiB
        whole == n \div MiB + (IF tenths = 10 THEN 1 ELSE 0)
    IN ToString(whole) \o "." \o ToString(tenths % 10)

\* _validate_file_path with the two size checks ahead of the extension check.
_validate_file_path_SizeFirst(f) ==
    IF ~f.exists THEN "File not found: " \o f.path
    ELSE IF ~f.isfile THEN "Not a file: " \o f.path
    ELSE IF f.size > _MAX_FILE_SIZE_BYTES
    THEN "File too large (" \o OneDecimal(f.size) \o " MB). Maximum: "
           \o ToString(_MAX_FILE_SIZE_BYTES \div MiB) \o " MB."
    ELSE IF f.size = 0 THEN "File is empty."
    ELSE IF Lower(f.ext) \notin _ALLOWED_EXTENSIONS
    THEN "Unsupported file type '" \o Lower(f.ext) \o "'. Allowed: "
           \o ".arff, .csv, .feather, .json, .parquet, .tsv, .xls, .xlsx"
    ELSE None

\* Lines 225-263.
_validate_file_path(f) ==
    IF ~f.exists THEN "File not found: " \o f.path
    ELSE IF ~f.isfile THEN "Not a file: " \o f.path
    ELSE IF Lower(f.ext) \notin _ALLOWED_EXTENSIONS
    THEN "Unsupported file type '" \o Lower(f.ext) \o "'. Allowed: "
           \o ".arff, .csv, .feather, .json, .parquet, .tsv, .xls, .xlsx"
    ELSE IF f.size > _MAX_FILE_SIZE_BYTES
    THEN "File too large (" \o OneDecimal(f.size) \o " MB). Maximum: "
           \o ToString(_MAX_FILE_SIZE_BYTES \div MiB) \o " MB."
    ELSE IF f.size = 0 THEN "File is empty."
    ELSE None

\* mimetypes.guess_type(resolved_path)[0] or "text/csv"
ContentType(f) ==
    IF Lower(f.ext) = ".json" THEN "application/json" ELSE "text/csv"

\* ---------------------------------------------------------------------
\* Inputs of the tools
\* ---------------------------------------------------------------------

ApiKeys == {None, "", "disco_abc"}

EnvKeys == {None, "", "disco_env"}

Visibilities == {"public", "private", "PUBLIC", "secret"}

Titles == {None, "", "My title"}

Descriptions == {None, "", "About"}

GoodFiles ==
    { File("sales.csv", TRUE, TRUE, ".csv", 2 * MiB),
      File("one.tsv", TRUE, TRUE, ".tsv", 1),
      File("rows.JSON", TRUE, TRUE, ".JSON", _MAX_FILE_SIZE_BYTES) }

BadFiles ==
    { File("gone.csv", FALSE, FALSE, ".csv", 0),
      File("folder", TRUE, FALSE, "", 4096),
      File("folder.csv", TRUE, FALSE, ".csv", 4096),
      File("tool.exe", TRUE, TRUE, ".exe", 10),
      File("huge.EXE", TRUE, TRUE, ".EXE", _MAX_FILE_SIZE_BYTES + 1),
      File("void.exe", TRUE, TRUE, ".exe", 0),
      File("huge.csv", TRUE, TRUE, ".csv", _MAX_FILE_SIZE_BYTES + 1),
      File("void.csv", TRUE, TRUE, ".csv", 0) }

Files == GoodFiles \cup BadFiles

NoFile == File("", FALSE, FALSE, "", 0)

Args(api_key, visibility, file, title, description) ==
    [api_key |-> api_key, visibility |-> visibility, file |-> file,
     title |-> title, description |-> description,
     target_column |-> "revenue", depth_iterations |-> 1, run_id |-> "r_123"]

\* Arguments of a tool that takes only the key.
KeyArgs(api_key) == Args(api_key, "public", NoFile, None, None)

\* ---------------------------------------------------------------------
\* Response bodies of the backends
\* ---------------------------------------------------------------------

\* A backend may put a key `error` in the body of a 2xx response.
InBand == "in-band"

PresignFull ==
    [uploadUrl |-> "https://bucket/slot", key |-> "k1", uploadToken |-> "tok1",
     error |-> InBand]

\* Presign bodies: any subset of the three expected keys, with or without
\* `error`, and an empty string in place of each expected value.
PresignBodies ==
    { Restrict(PresignFull, S) : S \in SUBSET DOMAIN PresignFull }
      \cup { [Restrict(PresignFull, {"uploadUrl", "key", "uploadToken"})
                EXCEPT ![k] = ""] : k \in {"uploadUrl", "key", "uploadToken"} }

FileFull == [key |-> "k1", name |-> "sales.csv", size |-> 2097152, fileHash |-> "h1"]

FileDescriptors ==
    {FileFull} \cup { Restrict(FileFull, (DOMAIN FileFull) \ {k}) : k \in DOMAIN FileFull }

RECURSIVE SeqsUpTo(_, _)
\* The sequences over S of length at most n.
SeqsUpTo(S, n) ==
    IF n = 0 THEN { << >> }
    ELSE LET shorter == SeqsUpTo(S, n - 1)
         IN shorter \cup { Append(q, x) : q \in shorter, x \in S }

ColumnLists == SeqsUpTo({[name |-> "revenue"]}, MaxColumns)

\* One entry of issues.errors, with or without a message.
IssueEntries == { [message |-> "bad header"], [message |-> "bad row"], Empty }

IssuesValues ==
    {Empty} \cup { [errors |-> q] : q \in SeqsUpTo(IssueEntries, MaxErrors) }

\* Finalize bodies that report success: ok true, the file descriptor whole,
\* partial or missing, columns present or not, with or without `error`.
FinalizeAccepted ==
    { Restrict([ok |-> TRUE, file |-> f, columns |-> c, error |-> InBand], S) :
        f \in FileDescriptors, c \in ColumnLists,
        S \in { {"ok", "file", "columns"}, {"ok", "file"}, {"ok", "columns"},
                {"ok"}, {"ok", "file", "columns", "error"} } }

\* Finalize bodies that report a rejection: ok false or missing, issues
\* present or not, with or without `error`.
FinalizeRejected ==
    { Restrict([ok |-> FALSE, issues |-> i, error |-> InBand], S) :
        i \in IssuesValues,
        S \in { {"ok", "issues"}, {"ok"}, {"issues"}, {},
                {"ok", "issues", "error"} } }

FinalizeBodies == FinalizeAccepted \cup FinalizeRejected

SubmitFull == [run_id |-> "r_123", status |-> "pending", error |-> InBand]

SubmitBodies == { Restrict(SubmitFull, S) : S \in SUBSET DOMAIN SubmitFull }

\* Bodies of GET /api/runs/{run_id}/results.
ResultsBodies ==
    { Restrict([run_id |-> "r_123", status |-> st, hidden_deep_count |-> h,
                hidden_deep_novel_count |-> n, is_public |-> pub,
                error |-> InBand], S) :
        st \in {"completed", "processing"}, h \in {0, 1, 3}, n \in {0, 1},
        pub \in BOOLEAN,
        S \in { {"run_id", "status", "hidden_deep_count",
                   "hidden_deep_novel_count", "is_public"},
                {"run_id", "status", "hidden_deep_count", "is_public"},
                {"run_id", "status", "hidden_deep_count", "hidden_deep_novel_count"},
                {"run_id", "status"}, {"run_id"},
                {"run_id", "status", "error"} } }

\* Bodies of the control-plane API.
ApiBodies == { [credits |-> "10"], [credits |-> "10", error |-> InBand], Empty }

\* Everything the network can answer to a request whose 2xx bodies are B.
Answers(B) ==
    TransportFailures \cup OddOk \cup { Ok(m) : m \in B }
      \cup { o \in ErrorResponses : o.retry = None \/ o.status = 429 }

\* What the network can answer to the PUT of the file: a status, whatever
\* the body.
PutStatuses == {200, 204, 302, 403, 500}

PutAnswers ==
    TransportFailures
      \cup { Outcome("http", s, None, "text", "", Empty) : s \in PutStatuses }

\* ---------------------------------------------------------------------
\* State
\* ---------------------------------------------------------------------

VARIABLES
    _ENV_API_KEY,       \* the key read from the environment at start-up
    _api_client,        \* the pooled control-plane client, 0 while None
    _dashboard_client,  \* the pooled dashboard client, 0 while None
    created,            \* how many clients were ever constructed, per backend
    pc,                 \* per task: "off", "idle", the request awaited, "done"
    op,                 \* per task: the tool it runs
    args,               \* per task: the tool's arguments
    loc,                \* per task: the Upload Session held in local variables
    calls,              \* per task: the requests of this invocation, in order
    ret,                \* per task: how the invocation ended
    fs_checked,         \* per task: _validate_file_path ran in this invocation
    file_read           \* per task: the file's content was read

vars == << _ENV_API_KEY, _api_client, _dashboard_client, created,
           pc, op, args, loc, calls, ret, fs_checked, file_read >>

NoLoc == [resolved_key |-> None, upload_url |-> None, key |-> None,
          upload_token |-> None, content_type |-> None]

\* How an invocation ended: kind "none" while it runs, "return" with the
\* document and the indent given to json.dumps (0 for no indent), "raise"
\* with the exception that left the tool.
NoRet == [kind |-> "none", doc |-> Doc(FALSE, Empty), indent |-> 0, exc |-> None]

\* The state of task p as one record.
Task(p) ==
    [pc |-> pc[p], op |-> op[p], args |-> args[p], loc |-> loc[p],
     calls |-> calls[p], ret |-> ret[p],
     fs_checked |-> fs_checked[p], file_read |-> file_read[p]]

\* A task entering tool `tool` with arguments a.
Entered(tool, a) ==
    [pc |-> "run", op |-> tool, args |-> a, loc |-> NoLoc, calls |-> << >>,
     ret |-> NoRet, fs_checked |-> FALSE, file_read |-> FALSE]

\* return json.dumps(doc, indent=indent)
Return(t, doc, indent) ==
    [t EXCEPT !.pc = "done",
              !.ret = [kind |-> "return", doc |-> doc, indent |-> indent, exc |-> None]]

\* return json.dumps({"error": msg})
ReturnError(t, msg) == Return(t, Doc(TRUE, [error |-> msg]), 0)

\* an exception leaves the tool
Raise(t, exc) ==
    [t EXCEPT !.pc = "done",
              !.ret = [kind |-> "raise", doc |-> Doc(FALSE, Empty), indent |-> 0,
                       exc |-> exc]]

\* One request: which step of which tool sends it, through which client,
\* and what it carries; out is the network's answer once it came, res is
\* what the request client made of it.
Call(step, client, method, path, api_key, payload) ==
    [step |-> step, client |-> client, method |-> method, path |-> path,
     api_key |-> api_key, payload |-> payload, out |-> Pending, res |-> NoResult]

\* The task sends request c and waits for the answer.
Await(t, c) == [t EXCEPT !.pc = c.step, !.calls = Append(@, c)]

\* The awaited request was answered with o, which the client turned into res.
Answered(t, o, res) ==
    [t EXCEPT !.calls[Len(t.calls)].out = o, !.calls[Len(t.calls)].res = res]

\* The exception httpx raises for a transport failure.
TransportError(o) ==
    IF o.kind = "connect" THEN "httpx.ConnectError" ELSE "httpx.TimeoutException"

\* _get_api_client without `if _api_client is None`: a client per call.
_get_api_client_Unconditional(client, made) ==
    [client |-> made + 1, made |-> made + 1]

\* if client is None: client = httpx.AsyncClient(...)
_get_api_client(client, made) ==
    IF client = 0 THEN [client |-> made + 1, made |-> made + 1]
    ELSE [client |-> client, made |-> made]

_get_dashboard_client(client, made) ==
    IF client = 0 THEN [client |-> made + 1, made |-> made + 1]
    ELSE [client |-> client, made |-> made]

\* Task p becomes t; n is the number of requests it had sent before.  A
\* request sent through a pooled client first fetches that client.
Becomes(p, t, n) ==
    LET sent == { t.calls[i].client : i \in (n + 1)..Len(t.calls) }
        api == IF "api" \in sent
               THEN _get_api_client(_api_client, created.api)
               ELSE [client |-> _api_client, made |-> created.api]
        dash == IF "dashboard" \in sent
                THEN _get_dashboard_client(_dashboard_client, created.dashboard)
                ELSE [client |-> _dashboard_client, made |-> created.dashboard]
    IN /\ pc' = [pc EXCEPT ![p] = t.pc]
       /\ op' = [op EXCEPT ![p] = t.op]
       /\ args' = [args EXCEPT ![p] = t.args]
       /\ loc' = [loc EXCEPT ![p] = t.loc]
       /\ calls' = [calls EXCEPT ![p] = t.calls]
       /\ ret' = [ret EXCEPT ![p] = t.ret]
       /\ fs_checked' = [fs_checked EXCEPT ![p] = t.fs_checked]
       /\ file_read' = [file_read EXCEPT ![p] = t.file_read]
       /\ _api_client' = api.client
       /\ _dashboard_client' = dash.client
       /\ created' = [api |-> api.made, dashboard |-> dash.made]
       /\ UNCHANGED _ENV_API_KEY

\* A task can be given a new invocation when it runs none.
Free(p) == pc[p] = "idle"

KeyRequired == "API key required. Pass api_key or set DISCOVERY_API_KEY env var."

\* ---------------------------------------------------------------------
\* discovery_analyze
\* ---------------------------------------------------------------------

\* AnalyzeBegin with the file validated before the visibility.
AnalyzeBegin_FileFirst(t, env) ==
    LET a == t.args
        resolved_key == _resolve_api_key(a.api_key, env)
        vis_err == _validate_visibility(a.visibility)
        file_err == _validate_file_path(a.file)
        checked == [t EXCEPT !.fs_checked = TRUE]
        content_type == ContentType(a.file)
    IN IF ~Truthy(resolved_key) THEN ReturnError(t, KeyRequired)
       ELSE IF file_err # None THEN ReturnError(checked, file_err)
       ELSE IF vis_err # None THEN ReturnError(checked, vis_err)
       ELSE Await([checked EXCEPT !.loc.resolved_key = resolved_key,
                                  !.loc.content_type = content_type],
                  Call("presign", "dashboard", "POST", "/api/data/upload/presign",
                       resolved_key,
                       [fileName |-> a.file.path, contentType |-> content_type,
                        fileSize |-> a.file.size]))

\* Lines 372-402: the checks, then the presign request.
AnalyzeBegin(t, env) ==
    LET a == t.args
        resolved_key == _resolve_api_key(a.api_key, env)
        vis_err == _validate_visibility(a.visibility)
        file_err == _validate_file_path(a.file)
        checked == [t EXCEPT !.fs_checked = TRUE]
        content_type == ContentType(a.file)
    IN IF ~Truthy(resolved_key) THEN ReturnError(t, KeyRequired)
       ELSE IF vis_err # None THEN ReturnError(t, vis_err)
       ELSE IF file_err # None THEN ReturnError(checked, file_err)
       ELSE Await([checked EXCEPT !.loc.resolved_key = resolved_key,
                                  !.loc.content_type = content_type],
                  Call("presign", "dashboard", "POST", "/api/data/upload/presign",
                       resolved_key,
                       [fileName |-> a.file.path, contentType |-> content_type,
                        fileSize |-> a.file.size]))

\* if upload_resp.status_code >= 400
UploadFailed(status) == status >= 400

\* AfterPresign that sends the presign request a second time when the first
\* one was rate limited.
AfterPresign_RetriesRateLimit(t, o) ==
    LET presign == _dashboard_request(o)
        u == Answered(t, o, presign)
        upload_url == Get(presign.m, "uploadUrl")
        key == Get(presign.m, "key")
        upload_token == Get(presign.m, "uploadToken")
    IN IF o.kind = "http" /\ o.status = 429 /\ Len(t.calls) = 1
       THEN Await(u, t.calls[1])
       ELSE IF presign.raised THEN Raise(u, presign.exc)
       ELSE IF ~presign.isMap THEN Raise(u, "AttributeError")
       ELSE IF "error" \in DOMAIN presign.m THEN Return(u, Doc(TRUE, presign.m), 0)
       ELSE IF ~Truthy(upload_url) \/ ~Truthy(key) \/ ~Truthy(upload_token)
       THEN ReturnError(u, "Failed to get upload URL from API.")
       ELSE Await([u EXCEPT !.loc.upload_url = upload_url, !.loc.key = key,
                            !.loc.upload_token = upload_token,
                            !.file_read = TRUE],
                  Call("transfer", "scratch", "PUT", upload_url, None,
                       [content |-> t.args.file.path,
                        contentType |-> t.loc.content_type]))

\* AfterPresign that forgets to require the uploadToken.
AfterPresign_TokenUnchecked(t, o) ==
    LET presign == _dashboard_request(o)
        u == Answered(t, o, presign)
        upload_url == Get(presign.m, "uploadUrl")
        key == Get(presign.m, "key")
        upload_token == Get(presign.m, "uploadToken")
    IN IF presign.raised THEN Raise(u, presign.exc)
       ELSE IF ~presign.isMap THEN Raise(u, "AttributeError")
       ELSE IF "error" \in DOMAIN presign.m THEN Return(u, Doc(TRUE, presign.m), 0)
       ELSE IF ~Truthy(upload_url) \/ ~Truthy(key)
       THEN ReturnError(u, "Failed to get upload URL from API.")
       ELSE Await([u EXCEPT !.loc.upload_url = upload_url, !.loc.key = key,
                            !.loc.upload_token = upload_token,
                            !.file_read = TRUE],
                  Call("transfer", "scratch", "PUT", upload_url, None,
                       [content |-> t.args.file.path,
                        contentType |-> t.loc.content_type]))

\* Lines 403-419: the presign result is examined, the file is read and the
\* PUT is sent through a client of its own.
AfterPresign(t, o) ==
    LET presign == _dashboard_request(o)
        u == Answered(t, o, presign)
        upload_url == Get(presign.m, "uploadUrl")
        key == Get(presign.m, "key")
        upload_token == Get(presign.m, "uploadToken")
    IN IF presign.raised THEN Raise(u, presign.exc)
       ELSE IF ~presign.isMap THEN Raise(u, "AttributeError")
       ELSE IF "error" \in DOMAIN presign.m THEN Return(u, Doc(TRUE, presign.m), 0)
       ELSE IF ~Truthy(upload_url) \/ ~Truthy(key) \/ ~Truthy(upload_token)
       THEN ReturnError(u, "Failed to get upload URL from API.")
       ELSE Await([u EXCEPT !.loc.upload_url = upload_url, !.loc.key = key,
                            !.loc.upload_token = upload_token,
                            !.file_read = TRUE],
                  Call("transfer", "scratch", "PUT", upload_url, None,
                       [content |-> t.args.file.path,
                        contentType |-> t.loc.content_type]))

\* AfterTransfer with the Upload Session kept in one slot that the
\* invocations share: the finalize request carries what the slot holds,
\* whichever invocation filled it.
AfterTransfer_SharedSession(t, o) ==
    IF o.kind # "http"
    THEN Raise(Answered(t, o, Raised(TransportError(o))), TransportError(o))
    ELSE LET u == Answered(t, o, NoResult)
             holder == CHOOSE q \in Procs : loc[q].key # None
         IN IF UploadFailed(o.status)
            THEN ReturnError(u, "File upload failed: " \o ToString(o.status))
            ELSE Await(u, Call("finalize", "dashboard", "POST",
                               "/api/data/upload/finalize", t.loc.resolved_key,
                               [key |-> loc[holder].key,
                                uploadToken |-> loc[holder].upload_token]))

\* Lines 415-429: the PUT is not guarded by any try; its status is checked
\* and the finalize request is sent.
AfterTransfer(t, o) ==
    IF o.kind # "http"
    THEN Raise(Answered(t, o, Raised(TransportError(o))), TransportError(o))
    ELSE LET u == Answered(t, o, NoResult)
         IN IF UploadFailed(o.status)
            THEN ReturnError(u, "File upload failed: " \o ToString(o.status))
            ELSE Await(u, Call("finalize", "dashboard", "POST",
                               "/api/data/upload/finalize", t.loc.resolved_key,
                               [key |-> t.loc.key,
                                uploadToken |-> t.loc.upload_token]))

\* FinalizeErrorMsg reporting the last entry (errors[-1]) instead of the first.
FinalizeErrorMsg_Last(finalize) ==
    LET issues == IF "issues" \in DOMAIN finalize THEN finalize.issues ELSE Empty
        errors == IF "errors" \in DOMAIN issues THEN issues.errors ELSE << >>
    IN IF errors # << >> THEN Get(errors[Len(errors)], "message")
       ELSE "Upload finalize failed"

\* errors = finalize.get("issues", {}).get("errors", [])
\* error_msg = errors[0].get("message") if errors else "Upload finalize failed"
FinalizeErrorMsg(finalize) ==
    LET issues == IF "issues" \in DOMAIN finalize THEN finalize.issues ELSE Empty
        errors == IF "errors" \in DOMAIN issues THEN issues.errors ELSE << >>
    IN IF errors # << >> THEN Get(errors[1], "message")
       ELSE "Upload finalize failed"

\* Lines 442-457: the run-creation payload.
RunPayload(uploaded_file, columns, a) ==
    LET base == [file |-> Restrict(uploaded_file, {"key", "name", "size", "fileHash"}),
                 columns |-> columns,
                 targetColumn |-> a.target_column,
                 depthIterations |-> a.depth_iterations,
                 isPublic |-> (a.visibility = "public")]
        titled == IF Truthy(a.title) THEN Put(base, "title", a.title) ELSE base
    IN IF Truthy(a.description) THEN Put(titled, "description", a.description)
       ELSE titled

\* Lines 430-464: the finalize result is examined and the run is submitted.
AfterFinalize(t, o) ==
    LET finalize == _dashboard_request(o)
        u == Answered(t, o, finalize)
        f == finalize.m
    IN IF finalize.raised THEN Raise(u, finalize.exc)
       ELSE IF ~finalize.isMap THEN Raise(u, "AttributeError")
       ELSE IF "error" \in DOMAIN f THEN Return(u, Doc(TRUE, f), 0)
       ELSE IF ~("ok" \in DOMAIN f /\ f.ok)
       THEN ReturnError(u, FinalizeErrorMsg(f))
       ELSE IF "file" \notin DOMAIN f THEN Raise(u, "KeyError")
       ELSE IF ~({"key", "name", "size", "fileHash"} \subseteq DOMAIN f.file)
       THEN Raise(u, "KeyError")
       ELSE Await(u, Call("submit", "dashboard", "POST",
                          "/api/reports/create-from-upload", t.loc.resolved_key,
                          RunPayload(f.file,
                                     IF "columns" \in DOMAIN f THEN f.columns ELSE << >>,
                                     t.args)))

\* AfterSubmit returning the wrong local: the finalize result instead of the
\* result of the run creation.
AfterSubmit_ReturnsFinalize(t, o) ==
    LET result == _dashboard_request(o)
        u == Answered(t, o, result)
        finalize == t.calls[3].res
    IN IF result.raised THEN Raise(u, result.exc)
       ELSE Return(u, Doc(finalize.isMap, finalize.m), 2)

\* Line 465: return json.dumps(result, indent=2)
AfterSubmit(t, o) ==
    LET result == _dashboard_request(o)
        u == Answered(t, o, result)
    IN IF result.raised THEN Raise(u, result.exc)
       ELSE Return(u, Doc(result.isMap, result.m), 2)

discovery_analyze(p) ==
    /\ Free(p)
    /\ \E api_key \in ApiKeys, visibility \in Visibilities, file \in Files,
          title \in Titles, description \in Descriptions :
         Becomes(p, AnalyzeBegin(Entered("analyze",
                        Args(api_key, visibility, file, title, description)),
                      _ENV_API_KEY), 0)

PresignResponse(p) ==
    /\ pc[p] = "presign"
    /\ \E o \in Answers(PresignBodies) :
         Becomes(p, AfterPresign(Task(p), o), Len(calls[p]))

TransferResponse(p) ==
    /\ pc[p] = "transfer"
    /\ \E o \in PutAnswers :
         Becomes(p, AfterTransfer(Task(p), o), Len(calls[p]))

FinalizeResponse(p) ==
    /\ pc[p] = "finalize"
    /\ \E o \in Answers(FinalizeBodies) :
         Becomes(p, AfterFinalize(Task(p), o), Len(calls[p]))

SubmitResponse(p) ==
    /\ pc[p] = "submit"
    /\ \E o \in Answers(SubmitBodies) :
         Becomes(p, AfterSubmit(Task(p), o), Len(calls[p]))

\* ---------------------------------------------------------------------
\* The tools that make one request
\* ---------------------------------------------------------------------

\* Lines 310-329: discovery_estimate up to its request.  The sizes of the
\* dataset are passed through and left out of the payload here.
EstimateBegin(t, env) ==
    LET resolved_key == _resolve_api_key(t.args.api_key, env)
        vis_err == _validate_visibility(t.args.visibility)
    IN IF ~Truthy(resolved_key) THEN ReturnError(t, KeyRequired)
       ELSE IF vis_err # None THEN ReturnError(t, vis_err)
       ELSE Await([t EXCEPT !.loc.resolved_key = resolved_key],
                  Call("estimate", "api", "POST", "/v1/estimate", resolved_key,
                       [visibility |-> t.args.visibility]))

\* KeyedBegin without the check of the resolved key.
KeyedBegin_Unchecked(t, env, client, method, path) ==
    LET resolved_key == _resolve_api_key(t.args.api_key, env)
    IN Await([t EXCEPT !.loc.resolved_key = resolved_key],
             Call(t.op, client, method, path, resolved_key, Empty))

\* The tools that resolve the key and make one request (status, get_results,
\* account, add_payment_method, purchase_credits, subscribe) up to it.
KeyedBegin(t, env, client, method, path) ==
    LET resolved_key == _resolve_api_key(t.args.api_key, env)
    IN IF ~Truthy(resolved_key) THEN ReturnError(t, KeyRequired)
       ELSE Await([t EXCEPT !.loc.resolved_key = resolved_key],
                  Call(t.op, client, method, path, resolved_key, Empty))

\* discovery_list_plans and discovery_signup send no key.
OpenBegin(t, method, path) ==
    Await(t, Call(t.op, "api", method, path, None, Empty))

\* return json.dumps(result, indent=2) of a control-plane request
AfterApi(t, o) ==
    LET result == _api_request(o)
        u == Answered(t, o, result)
    IN IF result.raised THEN Raise(u, result.exc)
       ELSE Return(u, Doc(result.isMap, result.m), 2)

\* Lines 489-502: discovery_status keeps the status fields only.
AfterStatus(t, o) ==
    LET result == _dashboard_request(o)
        u == Answered(t, o, result)
        m == result.m
    IN IF result.raised THEN Raise(u, result.exc)
       ELSE IF ~result.isMap THEN Raise(u, "AttributeError")
       ELSE IF "error" \notin DOMAIN m
       THEN Return(u, Doc(TRUE, [run_id |-> Get(m, "run_id"),
                                 status |-> Get(m, "status"),
                                 job_id |-> Get(m, "job_id"),
                                 job_status |-> Get(m, "job_status"),
                                 error_message |-> Get(m, "error_message")]), 2)
       ELSE Return(u, Doc(TRUE, m), 2)

\* AfterResults that adds the hints to every result without `error`,
\* whatever the status of the run.
AfterResults_AnyStatus(t, o) ==
    LET result == _dashboard_request(o)
        u == Answered(t, o, result)
        m == result.m
    IN IF result.raised THEN Raise(u, result.exc)
       ELSE IF ~result.isMap THEN Raise(u, "AttributeError")
       ELSE IF "error" \notin DOMAIN m
       THEN Return(u, Doc(TRUE, Put(m, "hints", _build_result_hints(m))), 2)
       ELSE Return(u, Doc(TRUE, m), 2)

\* AfterResults that takes the two counters out of the result once the
\* hints are built from them.
AfterResults_CountersRemoved(t, o) ==
    LET result == _dashboard_request(o)
        u == Answered(t, o, result)
        m == result.m
        kept == (DOMAIN m) \ {"hidden_deep_count", "hidden_deep_novel_count"}
    IN IF result.raised THEN Raise(u, result.exc)
       ELSE IF ~result.isMap THEN Raise(u, "AttributeError")
       ELSE IF "error" \notin DOMAIN m /\ Get(m, "status") = "completed"
       THEN Return(u, Doc(TRUE, Put(Restrict(m, kept), "hints",
                                    _build_result_hints(m))), 2)
       ELSE Return(u, Doc(TRUE, m), 2)

\* Lines 525-528: discovery_get_results adds the hints to a completed run.
AfterResults(t, o) ==
    LET result == _dashboard_request(o)
        u == Answered(t, o, result)
        m == result.m
    IN IF result.raised THEN Raise(u, result.exc)
       ELSE IF ~result.isMap THEN Raise(u, "AttributeError")
       ELSE IF "error" \notin DOMAIN m /\ Get(m, "status") = "completed"
       THEN Return(u, Doc(TRUE, Put(m, "hints", _build_result_hints(m))), 2)
       ELSE Return(u, Doc(TRUE, m), 2)

discovery_list_plans(p) ==
    /\ Free(p)
    /\ Becomes(p, OpenBegin(Entered("list_plans", KeyArgs(None)), "GET", "/v1/plans"), 0)

discovery_signup(p) ==
    /\ Free(p)
    /\ Becomes(p, OpenBegin(Entered("signup", KeyArgs(None)), "POST", "/v1/signup"), 0)

discovery_estimate(p) ==
    /\ Free(p)
    /\ \E api_key \in ApiKeys, visibility \in Visibilities :
         Becomes(p, EstimateBegin(Entered("estimate",
                        Args(api_key, visibility, NoFile, None, None)),
                      _ENV_API_KEY), 0)

discovery_status(p) ==
    /\ Free(p)
    /\ \E api_key \in ApiKeys :
         Becomes(p, KeyedBegin(Entered("status", KeyArgs(api_key)), _ENV_API_KEY,
                               "dashboard", "GET", "/api/runs/r_123/results"), 0)

discovery_get_results(p) ==
    /\ Free(p)
    /\ \E api_key \in ApiKeys :
         Becomes(p, KeyedBegin(Entered("get_results", KeyArgs(api_key)), _ENV_API_KEY,
                               "dashboard", "GET", "/api/runs/r_123/results"), 0)

discovery_account(p) ==
    /\ Free(p)
    /\ \E api_key \in ApiKeys :
         Becomes(p, KeyedBegin(Entered("account", KeyArgs(api_key)), _ENV_API_KEY,
                               "api", "GET", "/v1/account"), 0)

discovery_add_payment_method(p) ==
    /\ Free(p)
    /\ \E api_key \in ApiKeys :
         Becomes(p, KeyedBegin(Entered("add_payment_method", KeyArgs(api_key)),
                               _ENV_API_KEY,
                               "api", "POST", "/v1/account/payment-method"), 0)

discovery_purchase_credits(p) ==
    /\ Free(p)
    /\ \E api_key \in ApiKeys :
         Becomes(p, KeyedBegin(Entered("purchase_credits", KeyArgs(api_key)),
                               _ENV_API_KEY,
                               "api", "POST", "/v1/account/credits/purchase"), 0)

discovery_subscribe(p) ==
    /\ Free(p)
    /\ \E api_key \in ApiKeys :
         Becomes(p, KeyedBegin(Entered("subscribe", KeyArgs(api_key)), _ENV_API_KEY,
                               "api", "POST", "/v1/account/subscribe"), 0)

\* The tools whose single request goes to the control-plane API.
ApiTools == {"list_plans", "signup", "estimate", "account", "add_payment_method",
             "purchase_credits", "subscribe"}

ApiResponse(p) ==
    /\ pc[p] \in ApiTools
    /\ \E o \in Answers(ApiBodies) :
         Becomes(p, AfterApi(Task(p), o), Len(calls[p]))

StatusResponse(p) ==
    /\ pc[p] = "status"
    /\ \E o \in Answers(ResultsBodies) :
         Becomes(p, AfterStatus(Task(p), o), Len(calls[p]))

ResultsResponse(p) ==
    /\ pc[p] = "get_results"
    /\ \E o \in Answers(ResultsBodies) :
         Becomes(p, AfterResults(Task(p), o), Len(calls[p]))

\* The MCP runtime hands the outcome of a finished invocation to the caller;
\* the task and its local variables are gone.
Deliver(p) ==
    /\ pc[p] = "done"
    /\ Becomes(p, [Entered("none", KeyArgs(None)) EXCEPT !.pc = "idle"], 0)

\* ---------------------------------------------------------------------
\* Specification
\* ---------------------------------------------------------------------

\* After start-up: no client yet, the key of the environment read once.
\* The server is driven by one caller at a time: one task, the others unused.
Init ==
    /\ _ENV_API_KEY \in EnvKeys
    /\ _api_client = 0
    /\ _dashboard_client = 0
    /\ created = [api |-> 0, dashboard |-> 0]
    /\ pc = [p \in Procs |-> IF p = 1 THEN "idle" ELSE "off"]
    /\ op = [p \in Procs |-> "none"]
    /\ args = [p \in Procs |-> KeyArgs(None)]
    /\ loc = [p \in Procs |-> NoLoc]
    /\ calls = [p \in Procs |-> << >>]
    /\ ret = [p \in Procs |-> NoRet]
    /\ fs_checked = [p \in Procs |-> FALSE]
    /\ file_read = [p \in Procs |-> FALSE]

Next ==
    \E p \in Procs :
        \/ discovery_list_plans(p)
        \/ discovery_signup(p)
        \/ discovery_estimate(p)
        \/ discovery_analyze(p)
        \/ discovery_status(p)
        \/ discovery_get_results(p)
        \/ discovery_account(p)
        \/ discovery_add_payment_method(p)
        \/ discovery_purchase_credits(p)
        \/ discovery_subscribe(p)
        \/ ApiResponse(p)
        \/ PresignResponse(p)
        \/ TransferResponse(p)
        \/ FinalizeResponse(p)
        \/ SubmitResponse(p)
        \/ StatusResponse(p)
        \/ ResultsResponse(p)
        \/ Deliver(p)

Spec == Init /\ [][Next]_vars

\* ---------------------------------------------------------------------
\* Concurrent invocations
\* ---------------------------------------------------------------------

\* The MCP runtime runs every invocation as a task of one asyncio event
\* loop: a task runs alone from one await of a response to the next, and
\* the responses of different tasks arrive in any order.  The arguments and
\* the answers are few here; the interleavings are all there.

ConcKey == "disco_abc"

ConcSlot == Restrict(PresignFull, {"uploadUrl", "key", "uploadToken"})

\* The slot a second presign request is given.
ConcSlot2 ==
    [uploadUrl |-> "https://bucket/slot2", key |-> "k2", uploadToken |-> "tok2"]

ConcSlots == {ConcSlot, ConcSlot2}

ConcFinalize == [ok |-> TRUE, file |-> FileFull, columns |-> << >>]

\* The finalize body of another upload: another file, with its column.
ConcFinalize2 ==
    [ok |-> TRUE,
     file |-> [key |-> "k2", name |-> "costs.csv", size |-> 1024, fileHash |-> "h2"],
     columns |-> << [name |-> "revenue"] >>]

ConcFinalizes == {ConcFinalize, ConcFinalize2}

ConcSubmit == [run_id |-> "r_123", status |-> "pending"]

ConcResults == [run_id |-> "r_123", status |-> "completed"]

\* The request is answered 200 with body m, or it times out.
ConcAnswers(m) == { Ok(m), Outcome("timeout", 0, None, "text", "cause", Empty) }

ConcAnalyze(p) ==
    /\ Free(p)
    /\ Becomes(p, AnalyzeBegin(Entered("analyze",
                   Args(ConcKey, "private", File("sales.csv", TRUE, TRUE, ".csv", 2 * MiB),
                        None, None)),
                 _ENV_API_KEY), 0)

ConcAccount(p) ==
    /\ Free(p)
    /\ Becomes(p, KeyedBegin(Entered("account", KeyArgs(ConcKey)), _ENV_API_KEY,
                          "api", "GET", "/v1/account"), 0)

ConcStatus(p) ==
    /\ Free(p)
    /\ Becomes(p, KeyedBegin(Entered("status", KeyArgs(ConcKey)), _ENV_API_KEY,
                          "dashboard", "GET", "/api/runs/r_123/results"), 0)

ConcApiResponse(p) ==
    /\ pc[p] \in ApiTools
    /\ \E o \in ConcAnswers([credits |-> "10"]) :
         Becomes(p, AfterApi(Task(p), o), Len(calls[p]))

ConcStatusResponse(p) ==
    /\ pc[p] = "status"
    /\ \E o \in ConcAnswers(ConcResults) :
         Becomes(p, AfterStatus(Task(p), o), Len(calls[p]))

ConcPresignResponse(p) ==
    /\ pc[p] = "presign"
    /\ \E m \in ConcSlots : \E o \in ConcAnswers(m) :
         Becomes(p, AfterPresign(Task(p), o), Len(calls[p]))

ConcTransferResponse(p) ==
    /\ pc[p] = "transfer"
    /\ \E o \in { Outcome("http", st, None, "text", "", Empty) : st \in {200, 500} } :
         Becomes(p, AfterTransfer(Task(p), o), Len(calls[p]))

ConcFinalizeResponse(p) ==
    /\ pc[p] = "finalize"
    /\ \E m \in ConcFinalizes : \E o \in ConcAnswers(m) :
         Becomes(p, AfterFinalize(Task(p), o), Len(calls[p]))

ConcSubmitResponse(p) ==
    /\ pc[p] = "submit"
    /\ \E o \in ConcAnswers(ConcSubmit) :
         Becomes(p, AfterSubmit(Task(p), o), Len(calls[p]))

\* After start-up, with every task free to take an invocation.
InitConcurrent ==
    /\ _ENV_API_KEY \in EnvKeys
    /\ _api_client = 0
    /\ _dashboard_client = 0
    /\ created = [api |-> 0, dashboard |-> 0]
    /\ pc = [p \in Procs |-> "idle"]
    /\ op = [p \in Procs |-> "none"]
    /\ args = [p \in Procs |-> KeyArgs(None)]
    /\ loc = [p \in Procs |-> NoLoc]
    /\ calls = [p \in Procs |-> << >>]
    /\ ret = [p \in Procs |-> NoRet]
    /\ fs_checked = [p \in Procs |-> FALSE]
    /\ file_read = [p \in Procs |-> FALSE]

NextConcurrent ==
    \E p \in Procs :
        \/ ConcAnalyze(p)
        \/ ConcAccount(p)
        \/ ConcStatus(p)
        \/ ConcApiResponse(p)
        \/ ConcStatusResponse(p)
        \/ ConcPresignResponse(p)
        \/ ConcTransferResponse(p)
        \/ ConcFinalizeResponse(p)
        \/ ConcSubmitResponse(p)
        \/ Deliver(p)

SpecConcurrent == InitConcurrent /\ [][NextConcurrent]_vars

\* ---------------------------------------------------------------------
\* Vocabulary of the properties
\* ---------------------------------------------------------------------

Analyzing(p) == op[p] = "analyze"

Finished(p) == pc[p] = "done"

\* The invocation returned a result holding the single key `error`.
ReturnedError(p) ==
    /\ ret[p].kind = "return"
    /\ ret[p].doc.isMap
    /\ DOMAIN ret[p].doc.m = {"error"}

\* The invocation returned the error msg and nothing else.
ReturnedErrorMsg(p, msg) == ReturnedError(p) /\ ret[p].doc.m.error = msg

\* The i-th request of the invocation of p.
CallOf(p, i) == calls[p][i]

Has(p, i) == i <= Len(calls[p])

\* The request was answered (its answer is no longer awaited).
Answer(c) == c.out.kind # "pending"

\* The request was answered by a 2xx response.
Status2xx(c) == c.out.kind = "http" /\ c.out.status \in 200..299

\* The request failed at the transport level.
TransportFailed(c) == c.out.kind \in {"connect", "timeout"}

\* The request failed: no response, or a response that is not 2xx.
StepFailed(c) == TransportFailed(c) \/ (c.out.kind = "http" /\ ~Status2xx(c))

StepOrder == << "presign", "transfer", "finalize", "submit" >>

\* ---------------------------------------------------------------------
\* C1
\* ---------------------------------------------------------------------

\* C1: in every execution of discovery_analyze the requests are sent in the
\* order presign, transfer, finalize, submit, each only after the previous
\* one succeeded; once a step has failed no later request is sent and the
\* invocation returns the error of that step, an `error` result.
C1_StepsInOrderFirstFailureReturned ==
    \A p \in Procs :
        Analyzing(p) =>
            LET n == Len(calls[p])
            IN /\ n <= 4
               /\ \A i \in 1..n : CallOf(p, i).step = StepOrder[i]
               /\ \A i \in 1..(n - 1) : Status2xx(CallOf(p, i))
               /\ (n > 0 /\ StepFailed(CallOf(p, n))) =>
                     /\ Finished(p)
                     /\ ReturnedError(p)
                     /\ CallOf(p, n).client = "dashboard" =>
                            ret[p].doc.m = CallOf(p, n).res.m

\* ---------------------------------------------------------------------
\* C2
\* ---------------------------------------------------------------------

\* C2: when the checks, presign, transfer and finalize of discovery_analyze
\* went through and the submit request was answered with a result, the
\* invocation returns exactly that normalized result: the same keys with
\* the same values.
C2_ResultIsSubmitResult ==
    \A p \in Procs :
        (Analyzing(p) /\ Has(p, 4) /\ Answer(CallOf(p, 4))
           /\ ~_dashboard_request(CallOf(p, 4).out).raised) =>
            LET result == _dashboard_request(CallOf(p, 4).out)
            IN /\ Finished(p)
               /\ ret[p].kind = "return"
               /\ ret[p].doc = Doc(result.isMap, result.m)

\* A run was created: the invocation ended with the submit response, which
\* carries the run_id and differs from the finalize response.
C2_Witness ==
    \E p \in Procs :
        /\ Analyzing(p) /\ Finished(p) /\ Has(p, 4)
        /\ CallOf(p, 4).out = Ok([run_id |-> "r_123", status |-> "pending"])
        /\ ret[p].doc.m = [run_id |-> "r_123", status |-> "pending"]

\* ---------------------------------------------------------------------
\* C3
\* ---------------------------------------------------------------------

\* The request was answered by a 2xx response whose body is a JSON object
\* that the tools do not take for a failure: it has no key `error`.
Succeeded(c) ==
    Status2xx(c) /\ c.out.ctype = "map" /\ "error" \notin DOMAIN c.out.body

UploadSlotKeys == {"uploadUrl", "key", "uploadToken"}

\* C3: if the successful presign response of discovery_analyze lacks one of
\* uploadUrl, key, uploadToken, the invocation returns the local error
\* "Failed to get upload URL from API." and sends no transfer, finalize or
\* submit request (the file is not even read).
C3_MissingSlotKeyIsLocalError ==
    \A p \in Procs :
        (Analyzing(p) /\ Has(p, 1) /\ Succeeded(CallOf(p, 1))
           /\ ~(UploadSlotKeys \subseteq DOMAIN CallOf(p, 1).out.body)) =>
            /\ Finished(p)
            /\ ReturnedErrorMsg(p, "Failed to get upload URL from API.")
            /\ Len(calls[p]) = 1
            /\ ~file_read[p]

\* The presign response had everything but the uploadToken.
C3_Witness ==
    \E p \in Procs :
        /\ Analyzing(p) /\ Finished(p) /\ Has(p, 1)
        /\ CallOf(p, 1).out = Ok([uploadUrl |-> "https://bucket/slot", key |-> "k1"])
        /\ ReturnedErrorMsg(p, "Failed to get upload URL from API.")

\* ---------------------------------------------------------------------
\* C4
\* ---------------------------------------------------------------------

\* The message the claim expects for a rejected finalize body b: the message
\* of the first entry of issues.errors (None when that entry has none), the
\* generic message when issues or issues.errors is absent or empty.
RejectionMessage(b) ==
    IF "issues" \in DOMAIN b /\ "errors" \in DOMAIN b.issues
         /\ Len(b.issues.errors) > 0
    THEN Get(Head(b.issues.errors), "message")
    ELSE "Upload finalize failed"

\* C4: when the finalize response of discovery_analyze has ok false, the
\* invocation returns as its error the message of the first entry of
\* issues.errors, or the generic finalize-failure message when issues or
\* issues.errors is absent or empty; no submit request is sent.
C4_FinalizeRejectionMessage ==
    \A p \in Procs :
        (Analyzing(p) /\ Has(p, 3) /\ Succeeded(CallOf(p, 3))
           /\ "ok" \in DOMAIN CallOf(p, 3).out.body
           /\ ~CallOf(p, 3).out.body.ok) =>
            /\ Finished(p)
            /\ ReturnedErrorMsg(p, RejectionMessage(CallOf(p, 3).out.body))
            /\ Len(calls[p]) = 3

\* Finalize rejected the upload with two errors; the first one was returned.
C4_Witness ==
    \E p \in Procs :
        /\ Analyzing(p) /\ Finished(p) /\ Has(p, 3)
        /\ CallOf(p, 3).out =
             Ok([ok |-> FALSE,
                 issues |-> [errors |-> << [message |-> "bad header"],
                                           [message |-> "bad row"] >>]])
        /\ ReturnedErrorMsg(p, "bad header")
        /\ Len(calls[p]) = 3

\* ---------------------------------------------------------------------
\* C5
\* ---------------------------------------------------------------------

\* C5: every response to the transfer PUT of discovery_analyze whose status
\* is outside 200..299 is a fatal error that reports the status code; no
\* finalize or submit request follows it.
C5_NonSuccessPutIsFatal ==
    \A p \in Procs :
        (Analyzing(p) /\ Has(p, 2) /\ CallOf(p, 2).out.kind = "http"
           /\ ~Status2xx(CallOf(p, 2))) =>
            /\ Finished(p)
            /\ ReturnedErrorMsg(p, "File upload failed: "
                                     \o ToString(CallOf(p, 2).out.status))
            /\ Len(calls[p]) = 2

\* ---------------------------------------------------------------------
\* C6
\* ---------------------------------------------------------------------

\* C6: a failure of discovery_analyze, and in particular a connection
\* failure or a timeout in any of its four requests (presign, transfer PUT,
\* finalize, submit), ends the invocation with a result holding the single
\* key `error`; no exception leaves the tool.
C6_TransportFailureIsErrorResult ==
    \A p \in Procs :
        (Analyzing(p) /\ Len(calls[p]) > 0
           /\ TransportFailed(CallOf(p, Len(calls[p])))) =>
            /\ Finished(p)
            /\ ret[p].kind # "raise"
            /\ ReturnedError(p)

\* ---------------------------------------------------------------------
\* C7
\* ---------------------------------------------------------------------

FileKeys == {"key", "name", "size", "fileHash"}

\* The finalize body says ok but its file descriptor is missing or lacks one
\* of its four entries.
Malformed(b) ==
    /\ "ok" \in DOMAIN b /\ b.ok
    /\ \/ "file" \notin DOMAIN b
       \/ ~(FileKeys \subseteq DOMAIN b.file)

\* C7: a malformed finalize response (ok true, file descriptor or one of its
\* entries missing) is detected before the next request: the invocation
\* returns a result holding the single key `error` and sends no submit
\* request.
C7_MalformedFinalizeIsErrorResult ==
    \A p \in Procs :
        (Analyzing(p) /\ Has(p, 3) /\ Succeeded(CallOf(p, 3))
           /\ Malformed(CallOf(p, 3).out.body)) =>
            /\ Finished(p)
            /\ ReturnedError(p)
            /\ Len(calls[p]) = 3

\* ---------------------------------------------------------------------
\* C8
\* ---------------------------------------------------------------------

AuthTools == {"estimate", "analyze", "status", "get_results", "account",
              "add_payment_method", "purchase_credits", "subscribe"}

\* Neither the argument nor the environment gives a key.
NoCredential(p) ==
    args[p].api_key \in {None, ""} /\ _ENV_API_KEY \in {None, ""}

\* C8: an authenticated tool invoked with no resolved credential (absent or
\* empty) returns the error that asks for a key and makes no request, no
\* check of the file and no read of it.
C8_NoCredentialNoCall ==
    \A p \in Procs :
        (op[p] \in AuthTools /\ NoCredential(p)) =>
            /\ Finished(p)
            /\ ReturnedErrorMsg(p,
                 "API key required. Pass api_key or set DISCOVERY_API_KEY env var.")
            /\ calls[p] = << >>
            /\ ~fs_checked[p]
            /\ ~file_read[p]

\* discovery_analyze was refused for want of a key although its visibility
\* and its file were fine.
C8_Witness ==
    \E p \in Procs :
        /\ Analyzing(p) /\ Finished(p) /\ NoCredential(p)
        /\ args[p].file \in GoodFiles
        /\ args[p].visibility = "private"
        /\ ReturnedError(p)
        /\ calls[p] = << >>

\* ---------------------------------------------------------------------
\* C9
\* ---------------------------------------------------------------------

VisibilityTools == {"analyze", "estimate"}

BadVisibility(p) == args[p].visibility \notin {"public", "private"}

\* The message that names the two legal values.
VisibilityMessage(p) ==
    "Invalid visibility '" \o args[p].visibility
      \o "'. Must be 'public' or 'private'."

\* C9 as claimed: discovery_analyze and discovery_estimate reject a
\* visibility other than "public" and "private" with the message naming both
\* legal values, before the file safety check and before any request.
C9_BadVisibilityAlwaysNamed ==
    \A p \in Procs :
        (op[p] \in VisibilityTools /\ BadVisibility(p)) =>
            /\ Finished(p)
            /\ ReturnedErrorMsg(p, VisibilityMessage(p))
            /\ ~fs_checked[p]
            /\ calls[p] = << >>

\* C9 amended: a visibility other than "public" and "private" ends
\* discovery_analyze and discovery_estimate before the file safety check and
\* before any request; the error names both legal values when a credential
\* was resolved, and asks for a key when none was.
C9_BadVisibilityRejectedFirst ==
    \A p \in Procs :
        (op[p] \in VisibilityTools /\ BadVisibility(p)) =>
            /\ Finished(p)
            /\ ReturnedErrorMsg(p,
                 IF NoCredential(p)
                 THEN "API key required. Pass api_key or set DISCOVERY_API_KEY env var."
                 ELSE VisibilityMessage(p))
            /\ ~fs_checked[p]
            /\ ~file_read[p]
            /\ calls[p] = << >>

\* discovery_analyze, given a key, a bad visibility and a file that would
\* itself be refused, reported the visibility.
C9_Witness ==
    \E p \in Procs :
        /\ Analyzing(p) /\ Finished(p) /\ ~NoCredential(p)
        /\ args[p].visibility = "PUBLIC"
        /\ args[p].file \in BadFiles
        /\ ReturnedErrorMsg(p, "Invalid visibility 'PUBLIC'. Must be 'public' or 'private'.")

\* ---------------------------------------------------------------------
\* C10
\* ---------------------------------------------------------------------

\* The message of the family of an error status, from the response o.
FamilyMessage(o) ==
    CASE o.status = 401 ->
           "Authentication failed. Check your API key or session token."
      [] o.status = 402 -> "Payment required. Add a payment method first."
      [] o.status = 429 ->
           "Rate limited. Retry after "
             \o (IF o.retry = None THEN "60" ELSE o.retry) \o " seconds."
      [] OTHER ->
           "API error (" \o ToString(o.status) \o "): "
             \o (IF o.ctype = "map" /\ "detail" \in DOMAIN o.body
                 THEN o.body.detail ELSE o.text)

\* C10: for a response of either backend with status 401, 402, 429 or 500,
\* whatever its body, the request client raises nothing and returns the
\* mapping whose only key is `error`, holding the message of the status's
\* family (for 429 with the Retry-After value, 60 when the header is absent;
\* for 500 with the status code and the detail).
C10_ErrorStatusMapping ==
    \A p \in Procs :
        \A i \in 1..Len(calls[p]) :
            LET c == CallOf(p, i)
            IN (c.client \in {"api", "dashboard"} /\ c.out.kind = "http"
                  /\ c.out.status \in {401, 402, 429, 500}) =>
                   /\ ~c.res.raised
                   /\ c.res.isMap
                   /\ c.res.m = [error |-> FamilyMessage(c.out)]

\* The dashboard answered the finalize request with a 500 whose body is not
\* JSON: the raw text became the detail.
C10_Witness ==
    \E p \in Procs :
        /\ Has(p, 3)
        /\ CallOf(p, 3).client = "dashboard"
        /\ CallOf(p, 3).out.status = 500
        /\ CallOf(p, 3).out.ctype = "text"
        /\ CallOf(p, 3).res.m = [error |-> "API error (500): oops"]

\* ---------------------------------------------------------------------
\* C11
\* ---------------------------------------------------------------------

\* The request went through one of the two request clients.
ThroughClient(c) == c.client \in {"api", "dashboard"}

\* C11: for every 2xx response of either backend whose body is JSON, the
\* request client raises nothing and returns the decoded body itself: a
\* mapping exactly when the body is one, with the same keys and the same
\* value under each key.
C11_SuccessBodyReturnedAsIs ==
    \A p \in Procs :
        \A i \in 1..Len(calls[p]) :
            LET c == CallOf(p, i)
            IN (ThroughClient(c) /\ Status2xx(c) /\ c.out.ctype # "text") =>
                   /\ ~c.res.raised
                   /\ c.res.isMap = (c.out.ctype = "map")
                   /\ DOMAIN c.res.m = DOMAIN c.out.body
                   /\ \A k \in DOMAIN c.out.body : c.res.m[k] = c.out.body[k]

\* The dashboard answered the presign request 200 with a body of four keys,
\* `error` among them, and the client returned these four.
C11_Witness ==
    \E p \in Procs :
        /\ Has(p, 1)
        /\ CallOf(p, 1).client = "dashboard"
        /\ Status2xx(CallOf(p, 1))
        /\ CallOf(p, 1).out.body = PresignFull
        /\ CallOf(p, 1).res = Returned(TRUE, PresignFull)

\* ---------------------------------------------------------------------
\* C12
\* ---------------------------------------------------------------------

\* The body of the 2xx response is a JSON object that itself holds `error`.
InBandError(c) ==
    Status2xx(c) /\ c.out.ctype = "map" /\ "error" \in DOMAIN c.out.body

\* The invocation of p ended at its i-th request by returning that
\* request's result as its own.
ReturnedResultOf(p, i) ==
    /\ i = Len(calls[p])
    /\ Finished(p)
    /\ ret[p].kind = "return"
    /\ ret[p].doc = Doc(TRUE, CallOf(p, i).res.m)

\* C12 as stated: a result of the request client holds `error` if and only
\* if the call failed (transport failure or status >= 400), and
\* discovery_analyze never takes the result of a presign or finalize call
\* answered 2xx for a failure.
C12_ErrorKeyIffCallFailed ==
    \A p \in Procs :
        \A i \in 1..Len(calls[p]) :
            LET c == CallOf(p, i)
            IN (ThroughClient(c) /\ Answer(c) /\ ~c.res.raised) =>
                   /\ ("error" \in DOMAIN c.res.m) <=> StepFailed(c)
                   /\ (Analyzing(p) /\ c.step \in {"presign", "finalize"}
                         /\ Status2xx(c) /\ "error" \in DOMAIN c.res.m)
                        => ~ReturnedResultOf(p, i)

\* C12, amended: a failed call (transport failure or status >= 400) raises
\* nothing and yields a mapping whose only key is `error`; a call answered
\* 2xx yields a result holding `error` exactly when the body itself holds
\* it; and discovery_analyze ends at a presign or finalize result holding
\* `error`, whichever of the two it is, returning it with no later request.
C12_ErrorKeyIffFailedOrInBand ==
    \A p \in Procs :
        \A i \in 1..Len(calls[p]) :
            LET c == CallOf(p, i)
            IN (ThroughClient(c) /\ Answer(c)) =>
                   /\ StepFailed(c) =>
                        ~c.res.raised /\ c.res.isMap /\ DOMAIN c.res.m = {"error"}
                   /\ (~StepFailed(c) /\ ~c.res.raised) =>
                        (("error" \in DOMAIN c.res.m) <=> InBandError(c))
                   /\ (Analyzing(p) /\ c.step \in {"presign", "finalize"}
                         /\ ~c.res.raised /\ "error" \in DOMAIN c.res.m)
                        => ReturnedResultOf(p, i)

\* The finalize request was answered 200 with a body that reports ok and
\* holds `error`: the invocation ended there, returning that body.
C12_Witness ==
    \E p \in Procs :
        /\ Analyzing(p) /\ Has(p, 3)
        /\ InBandError(CallOf(p, 3))
        /\ "ok" \in DOMAIN CallOf(p, 3).out.body
        /\ CallOf(p, 3).out.body.ok
        /\ ReturnedResultOf(p, 3)

\* ---------------------------------------------------------------------
\* C13
\* ---------------------------------------------------------------------

\* What the request client of the other backend makes of the answer to c.
OtherClient(c) ==
    IF c.client = "api" THEN _dashboard_request(c.out) ELSE _api_request(c.out)

\* The environment variable a client's connection message points to.
UrlVariable(c) ==
    IF c.client = "api" THEN "DISCOVERY_API_URL" ELSE "DISCOVERY_DASHBOARD_URL"

\* C13 as stated: whatever the outcome of a request (connection failure,
\* timeout, or a response with its status, headers and body), the client
\* that handled it returned what the client of the other backend returns
\* for the same outcome.
C13_ClientsSameMapping ==
    \A p \in Procs :
        \A i \in 1..Len(calls[p]) :
            LET c == CallOf(p, i)
            IN (ThroughClient(c) /\ Answer(c)) => c.res = OtherClient(c)

\* C13, amended: for a timeout and for every response, the client that
\* handled the request returned what the client of the other backend
\* returns for the same outcome; for a connection failure both return a
\* single `error` with the same text up to the variable it tells the user
\* to check, which is the one of the client's own backend.
C13_ClientsSameMappingButUrlVariable ==
    \A p \in Procs :
        \A i \in 1..Len(calls[p]) :
            LET c == CallOf(p, i)
            IN (ThroughClient(c) /\ Answer(c)) =>
                   IF c.out.kind = "connect"
                   THEN c.res = Error("Connection failed: " \o c.out.text
                                        \o ". Check " \o UrlVariable(c) \o ".")
                   ELSE c.res = OtherClient(c)

\* A request of the control-plane client could not connect: its message
\* names DISCOVERY_API_URL, the dashboard client's names the other variable.
C13_Witness ==
    \E p \in Procs :
        /\ Has(p, 1)
        /\ CallOf(p, 1).client = "api"
        /\ CallOf(p, 1).out.kind = "connect"
        /\ CallOf(p, 1).res.m.error = "Connection failed: cause. Check DISCOVERY_API_URL."
        /\ OtherClient(CallOf(p, 1)).m.error
             = "Connection failed: cause. Check DISCOVERY_DASHBOARD_URL."

\* ---------------------------------------------------------------------
\* C14
\* ---------------------------------------------------------------------

\* The first check a path fails, in the order: nonexistent, not a regular
\* file, extension outside the allowlist, larger than 1 GiB, empty.
FirstFailingCheck(f) ==
    CASE ~f.exists -> "nonexistent"
      [] ~f.isfile -> "not a file"
      [] Lower(f.ext) \notin {".csv", ".tsv", ".xlsx", ".xls", ".json",
                               ".parquet", ".arff", ".feather"} -> "extension"
      [] f.size > 1024 * 1024 * 1024 -> "too large"
      [] f.size = 0 -> "empty"
      [] OTHER -> "none"

\* The message of each check for the path f.
CheckMessage(check, f) ==
    CASE check = "nonexistent" -> "File not found: " \o f.path
      [] check = "not a file" -> "Not a file: " \o f.path
      [] check = "extension" ->
           "Unsupported file type '" \o Lower(f.ext) \o "'. Allowed: "
             \o ".arff, .csv, .feather, .json, .parquet, .tsv, .xls, .xlsx"
      [] check = "too large" -> "File too large (1024.0 MB). Maximum: 1024 MB."
      [] check = "empty" -> "File is empty."

\* C14: once discovery_analyze has run the file safety gate on its path,
\* either the path fails a check and the invocation has ended, without any
\* request, with the single message of the first check it fails in the
\* order nonexistent, not a regular file, extension outside the allowlist,
\* size above 1 GiB, size zero; or the path fails none (it exists, is
\* regular, has an allowed extension and a size in 1..1 GiB) and the gate
\* gave no message: the presign request was sent.
C14_FirstFailingCheckReported ==
    \A p \in Procs :
        (Analyzing(p) /\ fs_checked[p]) =>
            LET f == args[p].file
                check == FirstFailingCheck(f)
            IN IF check = "none"
               THEN /\ f.exists /\ f.isfile /\ f.size \in 1..(1024 * 1024 * 1024)
                    /\ Has(p, 1)
                    /\ CallOf(p, 1).step = "presign"
               ELSE /\ Finished(p)
                    /\ calls[p] = << >>
                    /\ ReturnedErrorMsg(p, CheckMessage(check, f))

\* A regular file with extension .EXE and a size above 1 GiB fails two
\* checks; the extension, the earlier one, is what was reported.
C14_Witness ==
    \E p \in Procs :
        /\ Analyzing(p) /\ fs_checked[p]
        /\ args[p].file.ext = ".EXE"
        /\ args[p].file.size > 1024 * 1024 * 1024
        /\ ReturnedErrorMsg(p, "Unsupported file type '.exe'. Allowed: "
                                 \o ".arff, .csv, .feather, .json, .parquet, .tsv, .xls, .xlsx")

\* ---------------------------------------------------------------------
\* C15
\* ---------------------------------------------------------------------

\* The tasks whose invocation sent a request through the pooled client of
\* backend b.
UsesOf(b) ==
    { p \in Procs : \E i \in 1..Len(calls[p]) : CallOf(p, i).client = b }

\* C15: however the invocations of the tasks interleave, at most one client
\* was ever constructed for each backend; it is constructed by the first
\* request for that backend, and it is the pooled client ever after: every
\* request that went through a pooled client found the first one in place.
C15_PooledClientCreatedOnce ==
    /\ created.api = (IF _api_client = 0 THEN 0 ELSE 1)
    /\ created.dashboard = (IF _dashboard_client = 0 THEN 0 ELSE 1)
    /\ _api_client \in {0, 1}
    /\ _dashboard_client \in {0, 1}
    /\ UsesOf("api") # {} => _api_client = 1
    /\ UsesOf("dashboard") # {} => _dashboard_client = 1

\* Two tasks have each a request in flight through the control-plane
\* client, neither answered: one client was constructed.
C15_Witness ==
    \E p, q \in Procs :
        /\ p # q
        /\ pc[p] = "account" /\ pc[q] = "account"
        /\ ~Answer(CallOf(p, 1)) /\ ~Answer(CallOf(q, 1))
        /\ created.api = 1
        /\ _api_client = 1

\* ---------------------------------------------------------------------
\* C16
\* ---------------------------------------------------------------------

\* The request was answered by a 429 or was not answered in time.
RateLimitedOrTimedOut(c) ==
    c.out.kind = "timeout" \/ (c.out.kind = "http" /\ c.out.status = 429)

\* C16: within one invocation no two requests go to the same endpoint (the
\* same method and path, the PUT of the transfer included); and a request
\* answered 429 or timed out is the last of its invocation, which has ended
\* in an error: the `error` result of the request client, or, for the PUT,
\* the exception of the timeout.
C16_NoRetry ==
    \A p \in Procs :
        /\ \A i, j \in 1..Len(calls[p]) :
              (CallOf(p, i).method = CallOf(p, j).method
                 /\ CallOf(p, i).path = CallOf(p, j).path) => i = j
        /\ \A i \in 1..Len(calls[p]) :
              LET c == CallOf(p, i)
              IN RateLimitedOrTimedOut(c) =>
                     /\ i = Len(calls[p])
                     /\ Finished(p)
                     /\ IF ThroughClient(c)
                        THEN ReturnedError(p) /\ ret[p].doc.m = c.res.m
                        ELSE ret[p].kind = "raise"

\* The finalize request of discovery_analyze was rate limited: three
\* requests were sent in all and the invocation ended with the rate-limit
\* error.
C16_Witness ==
    \E p \in Procs :
        /\ Analyzing(p) /\ Finished(p)
        /\ Len(calls[p]) = 3
        /\ CallOf(p, 3).out.kind = "http"
        /\ CallOf(p, 3).out.status = 429
        /\ ReturnedErrorMsg(p, "Rate limited. Retry after 60 seconds.")

\* ---------------------------------------------------------------------
\* C17
\* ---------------------------------------------------------------------

\* The payload m holds key k exactly when the caller supplied the argument
\* v (None is "not supplied", the empty string is a supplied value), and
\* then with that value.
KeyIffSupplied(m, k, v) ==
    /\ (k \in DOMAIN m) <=> (v # None)
    /\ (k \in DOMAIN m) => m[k] = v

\* C17: the payload of the run-creation request of discovery_analyze holds
\* `title` exactly when the caller supplied a title, the empty string
\* included, and `description` likewise; its isPublic is true exactly when
\* the visibility is "public".
C17_OptionalKeysIffSupplied ==
    \A p \in Procs :
        (Analyzing(p) /\ Has(p, 4)) =>
            LET payload == CallOf(p, 4).payload
            IN /\ KeyIffSupplied(payload, "title", args[p].title)
               /\ KeyIffSupplied(payload, "description", args[p].description)
               /\ payload.isPublic = (args[p].visibility = "public")

\* ---------------------------------------------------------------------
\* C18
\* ---------------------------------------------------------------------

\* The invocation of discovery_get_results by p made its request and has
\* returned a result.
ResultsReturned(p) ==
    op[p] = "get_results" /\ Has(p, 1) /\ Finished(p) /\ ret[p].kind = "return"

\* C18: what discovery_get_results returns has, `hints` set aside, the keys
\* of the result its request gave and the same value under each of them.
C18_HintsOnlyAdded ==
    \A p \in Procs :
        ResultsReturned(p) =>
            LET given == CallOf(p, 1).res.m
                returned == ret[p].doc.m
            IN /\ (DOMAIN returned) \ {"hints"} = (DOMAIN given) \ {"hints"}
               /\ \A k \in (DOMAIN given) \ {"hints"} : returned[k] = given[k]

\* A completed run with three hidden patterns: the result came back with
\* `hints` added and the five fields of the backend as they were.
C18_Witness ==
    \E p \in Procs :
        /\ ResultsReturned(p)
        /\ "hints" \in DOMAIN ret[p].doc.m
        /\ "hints" \notin DOMAIN CallOf(p, 1).out.body
        /\ Cardinality(DOMAIN CallOf(p, 1).out.body) = 5
        /\ CallOf(p, 1).out.body.hidden_deep_count = 3
        /\ ret[p].doc.m.hidden_deep_count = 3

\* ---------------------------------------------------------------------
\* C19
\* ---------------------------------------------------------------------

\* The upsell hint for h hidden patterns, n of them novel.
UpsellHint(h, n) ==
    "Deep analysis found " \o ToString(h) \o " more "
      \o (IF h = 1 THEN "pattern" ELSE "patterns")
      \o (IF n # 0 THEN ", including " \o ToString(n) \o " novel" ELSE "")
      \o ". Upgrade to a paid plan to unlock them: https://disco.leap-labs.com/account"

PrivacyHint ==
    "This was a public run -- results are visible in the public gallery. "
      \o "Use visibility='private' for confidential data."

\* The request of discovery_get_results by p was answered with the result
\* mapping of a completed run.
CompletedRun(p) ==
    /\ op[p] = "get_results" /\ Has(p, 1)
    /\ Succeeded(CallOf(p, 1))
    /\ Get(CallOf(p, 1).out.body, "status") = "completed"

\* C19: for the result mapping of a completed run, discovery_get_results
\* raises nothing and the hints it attaches are a list holding the upsell
\* hint exactly when hidden_deep_count is positive (with the count, with
\* the novel count only when that is not zero, and 'pattern' in the
\* singular exactly for the count 1) followed by the privacy reminder
\* exactly when is_public is true or absent; and nothing else, so none at
\* all for hidden_deep_count 0 and is_public false.
C19_HintsOfCompletedRun ==
    \A p \in Procs :
        CompletedRun(p) =>
            LET data == CallOf(p, 1).out.body
                h == IF "hidden_deep_count" \in DOMAIN data
                     THEN data.hidden_deep_count ELSE 0
                n == IF "hidden_deep_novel_count" \in DOMAIN data
                     THEN data.hidden_deep_novel_count ELSE 0
                public == "is_public" \notin DOMAIN data \/ data.is_public
            IN /\ ret[p].kind = "return"
               /\ "hints" \in DOMAIN ret[p].doc.m
               /\ ret[p].doc.m.hints =
                     (IF h > 0 THEN << UpsellHint(h, n) >> ELSE << >>)
                       \o (IF public THEN << PrivacyHint >> ELSE << >>)

\* A private completed run with one hidden pattern, none novel: the one
\* hint is the upsell, in the singular and without the novel part.
C19_Witness ==
    \E p \in Procs :
        /\ CompletedRun(p)
        /\ {"hidden_deep_count", "hidden_deep_novel_count", "is_public"}
             \subseteq DOMAIN CallOf(p, 1).out.body
        /\ CallOf(p, 1).out.body.hidden_deep_count = 1
        /\ CallOf(p, 1).out.body.hidden_deep_novel_count = 0
        /\ ~CallOf(p, 1).out.body.is_public
        /\ ret[p].doc.m.hints =
             << "Deep analysis found 1 more pattern. Upgrade to a paid plan to unlock them: https://disco.leap-labs.com/account" >>

\* ---------------------------------------------------------------------
\* C20
\* ---------------------------------------------------------------------

\* A key that is neither missing nor the empty string.
Present(k) == k \notin {None, ""}

\* C20: in every invocation of a tool that needs a credential, the key its
\* requests carry is the api_key argument when that is non-empty, whatever
\* the key of the environment, and the key of the environment otherwise;
\* when neither is there the resolver gave nothing: the invocation sent no
\* request and reported the missing key.
C20_ExplicitKeyThenDefault ==
    \A p \in Procs :
        (op[p] \in AuthTools) =>
            /\ \A i \in 1..Len(calls[p]) :
                  ThroughClient(CallOf(p, i)) =>
                      /\ CallOf(p, i).api_key =
                            (IF Present(args[p].api_key) THEN args[p].api_key
                             ELSE _ENV_API_KEY)
                      /\ loc[p].resolved_key = CallOf(p, i).api_key
            /\ (~Present(args[p].api_key) /\ ~Present(_ENV_API_KEY)) =>
                  /\ calls[p] = << >>
                  /\ ReturnedErrorMsg(p, KeyRequired)

\* Both keys are there and differ: the request carries the argument.
C20_Witness ==
    \E p \in Procs :
        /\ op[p] = "account" /\ Has(p, 1)
        /\ args[p].api_key = "disco_abc"
        /\ _ENV_API_KEY = "disco_env"
        /\ CallOf(p, 1).api_key = "disco_abc"

\* ---------------------------------------------------------------------
\* C21
\* ---------------------------------------------------------------------

\* The finalize request of p carries the key and the uploadToken that the
\* presign response of p gave.
OwnSlotFinalized(p) ==
    CallOf(p, 3).payload =
        [key |-> CallOf(p, 1).res.m.key,
         uploadToken |-> CallOf(p, 1).res.m.uploadToken]

\* The submit payload of p carries the file descriptor and the columns that
\* the finalize response of p gave.
OwnFileSubmitted(p) ==
    LET finalize == CallOf(p, 3).res.m
        payload == CallOf(p, 4).payload
    IN /\ payload.file = Restrict(finalize.file, FileKeys)
       /\ payload.columns =
            (IF "columns" \in DOMAIN finalize THEN finalize.columns ELSE << >>)

\* C21: however concurrent invocations of discovery_analyze interleave,
\* the finalize request of each carries the key and uploadToken of its own
\* presign response, and the submit payload of each carries the file
\* descriptor and columns of its own finalize response.
C21_UploadSessionInvocationLocal ==
    \A p \in Procs :
        Analyzing(p) =>
            /\ Has(p, 3) => OwnSlotFinalized(p)
            /\ Has(p, 4) => OwnFileSubmitted(p)

\* Two invocations run at once, were given different slots and different
\* finalize responses, and each has sent its submit request with its own.
C21_Witness ==
    \E p, q \in Procs :
        /\ p # q
        /\ Analyzing(p) /\ Analyzing(q)
        /\ pc[p] = "submit" /\ pc[q] = "submit"
        /\ CallOf(p, 1).res.m.key = "k1" /\ CallOf(q, 1).res.m.key = "k2"
        /\ CallOf(p, 3).payload.uploadToken = "tok1"
        /\ CallOf(q, 3).payload.uploadToken = "tok2"
        /\ CallOf(p, 4).payload.file.name = "costs.csv"
        /\ CallOf(q, 4).payload.file.name = "sales.csv"

\* ---------------------------------------------------------------------
\* C22
\* ---------------------------------------------------------------------

\* The result m has no `error` key and its status is "completed".
CompletedWithoutError(m) ==
    "error" \notin DOMAIN m /\ "status" \in DOMAIN m /\ m.status = "completed"

\* C22: what discovery_get_results returns holds `hints` only if the result
\* of its request has no `error` key and the status "completed"; for every
\* other result (an `error` result, a run in another status or with none)
\* it returns the result of its request as it is.
C22_HintsOnlyForCompleted ==
    \A p \in Procs :
        ResultsReturned(p) =>
            LET given == CallOf(p, 1).res.m
                returned == ret[p].doc.m
            IN /\ ("hints" \in DOMAIN returned) => CompletedWithoutError(given)
               /\ ~CompletedWithoutError(given) => returned = given

\* A run still processing, with hidden patterns counted already: its
\* result came back as the backend gave it, without hints.
C22_Witness ==
    \E p \in Procs :
        /\ ResultsReturned(p)
        /\ Succeeded(CallOf(p, 1))
        /\ {"status", "hidden_deep_count"} \subseteq DOMAIN CallOf(p, 1).out.body
        /\ CallOf(p, 1).out.body.status = "processing"
        /\ CallOf(p, 1).out.body.hidden_deep_count = 3
        /\ ret[p].doc.m = CallOf(p, 1).out.body

====
